---- MODULE Spec2Model ----
(***************************************************************************)
(* A model of pegomock's mock generator, mockgen/mockgen.go.               *)
(*                                                                         *)
(* Part 1: the generator itself (GenerateOutput): alias resolution for the *)
(* import paths, the import block, the emission order of the units of      *)
(* every interface, and the formatting pass.                               *)
(* Part 2: the behaviour of the code the generator emits (the intercepting *)
(* method, the verifier method and the two capture accessors), obtained by *)
(* executing the statements the generator prints.                          *)
(*                                                                         *)
(* Strings are sequences of one-character strings, so that sorting,        *)
(* path.Base, sanitize, strings.Split and strconv.Itoa are computed as the *)
(* code computes them.                                                     *)
(***************************************************************************)
EXTENDS Integers, Sequences, FiniteSets

VARIABLES
  \* ---- generator (part 1)
  pkg,                  \* *model.Package: Imports(), DotImports, Interfaces
  structName,           \* nameOut argument of GenerateOutput
  selfPackage,          \* selfPackage argument of GenerateOutput
  pc,                   \* position of the running GenerateOutput call
  packageMap,           \* g.packageMap: import path -> package name
  nonVendorPackageMap,  \* vendor-cleaned import path -> package name
  buf,                  \* g.buf, as the sequence of emitted lines / units
  outputs,              \* results of the GenerateOutput calls finished so far
  \* ---- emitted code (part 2)
  method,               \* the *model.Method the code was generated for
  op,                   \* the emitted function that ran last
  args,                 \* arguments of that call
  params,               \* _params built by the emitted params declaration
  result,               \* _result returned by the runtime's Invoke
  rets,                 \* _ret0, _ret1, ... returned by the intercepting method
  asserted,             \* indexes of _result that were type-asserted
  indexed,              \* indexes of _result that were read
  handle,               \* the ongoing-verification value (methodInvocations)
  allCaptured,          \* value returned by GetAllCapturedArguments
  lastCaptured,         \* value returned by GetCapturedArguments
  panicked              \* the emitted function panicked

genVars == <<pkg, structName, selfPackage, pc, packageMap, nonVendorPackageMap,
             buf, outputs>>
mockVars == <<method, op, args, params, result, rets, asserted, indexed, handle,
              allCaptured, lastCaptured, panicked>>
vars == <<genVars, mockVars>>

\* ------------------------------------------------------------------ bounds

MaxImports == 2      \* import paths of the package besides the framework's
MaxInterfaces == 2   \* interfaces of a package
MaxMethods == 2      \* methods of an interface
Runs == 2            \* GenerateOutput calls on the same input

\* ----------------------------------------------------------------- strings

\* The characters that occur, in byte order (the order sort.Strings and
\* gofmt's import sorting compare by).
Alphabet ==
  <<"-", ".", "/", "0", "1", "2", "3", "4", "5", "6", "7", "8", "9", "_",
    "a", "b", "c", "d", "e", "f", "g", "h", "i", "j", "k", "l", "m", "n",
    "o", "p", "q", "r", "s", "t", "u", "v", "w", "x", "y", "z">>

Rank(c) == CHOOSE i \in DOMAIN Alphabet : Alphabet[i] = c

Min(a, b) == IF a < b THEN a ELSE b

\* s < t on Go strings (bytewise lexicographic).
StrLess(s, t) ==
  LET n == Min(Len(s), Len(t))
      diff == {i \in 1..n : s[i] # t[i]}
  IN IF diff = {}
       THEN Len(s) < Len(t)
       ELSE LET i == CHOOSE i \in diff : \A j \in diff : i <= j
            IN Rank(s[i]) < Rank(t[i])

Digits == <<"0", "1", "2", "3", "4", "5", "6", "7", "8", "9">>

IsDigit(c) == \E i \in DOMAIN Digits : Digits[i] = c

IsLetter(c) == Rank(c) >= Rank("a") /\ Rank(c) <= Rank("z")

RECURSIVE Itoa(_)
Itoa(i) == IF i < 10 THEN <<Digits[i + 1]>>
           ELSE Itoa(i \div 10) \o <<Digits[(i % 10) + 1]>>

\* The index of the first occurrence of sep in s at or after from; 0 if none.
IndexFrom(s, sep, from) ==
  LET hits == {i \in from..(Len(s) - Len(sep) + 1) :
                 SubSeq(s, i, i + Len(sep) - 1) = sep}
  IN IF hits = {} THEN 0 ELSE CHOOSE i \in hits : \A j \in hits : i <= j

\* path.Base for a non-empty path without a trailing slash.
Base(p) ==
  LET slashes == {i \in DOMAIN p : p[i] = "/"}
  IN IF slashes = {} THEN p
     ELSE LET last == CHOOSE i \in slashes : \A j \in slashes : j <= i
          IN SubSeq(p, last + 1, Len(p))

mockFrameworkImportPath ==
  <<"g","i","t","h","u","b",".","c","o","m","/","p","e","t","e","r","g","t",
    "z","/","p","e","g","o","m","o","c","k","/","v","4">>

pegomockName == <<"p","e","g","o","m","o","c","k">>

VendorSep == <<"/","v","e","n","d","o","r","/">>

\* strings.Split(importPath, "/vendor/")[1] when there is more than one part.
vendorCleaned(importPath) ==
  LET i == IndexFrom(importPath, VendorSep, 1)
  IN IF i = 0 THEN importPath
     ELSE LET rest == SubSeq(importPath, i + Len(VendorSep), Len(importPath))
              j == IndexFrom(rest, VendorSep, 1)
          IN IF j = 0 THEN rest ELSE SubSeq(rest, 1, j - 1)

RECURSIVE sanitizeFrom(_, _, _)
sanitizeFrom(s, i, t) ==
  IF i > Len(s) THEN t
  ELSE LET r == s[i]
           keep == IF t = <<>>
                     THEN IsLetter(r) \/ r = "_"
                     ELSE IsLetter(r) \/ IsDigit(r) \/ r = "_"
       IN sanitizeFrom(s, i + 1, t \o <<IF keep THEN r ELSE "_">>)

sanitize(s) ==
  LET t == sanitizeFrom(s, 1, <<>>)
  IN IF t = <<"_">> THEN <<"x">> ELSE t

\* token.Lookup(name).IsKeyword(): Go's keywords.
Keywords ==
  { <<"b","r","e","a","k">>, <<"d","e","f","a","u","l","t">>,
    <<"f","u","n","c">>, <<"i","n","t","e","r","f","a","c","e">>,
    <<"s","e","l","e","c","t">>, <<"c","a","s","e">>, <<"d","e","f","e","r">>,
    <<"g","o">>, <<"m","a","p">>, <<"s","t","r","u","c","t">>,
    <<"c","h","a","n">>, <<"e","l","s","e">>, <<"g","o","t","o">>,
    <<"p","a","c","k","a","g","e">>, <<"s","w","i","t","c","h">>,
    <<"c","o","n","s","t">>, <<"f","a","l","l","t","h","r","o","u","g","h">>,
    <<"i","f">>, <<"r","a","n","g","e">>, <<"t","y","p","e">>,
    <<"c","o","n","t","i","n","u","e">>, <<"f","o","r">>,
    <<"i","m","p","o","r","t">>, <<"r","e","t","u","r","n">>,
    <<"v","a","r">> }

IsKeyword(name) == name \in Keywords

\* ---------------------------------------------------------- alias resolver

\* All orders in which a map with key set S can be ranged over.
Orders(S) ==
  {s \in [1..Cardinality(S) -> S] : \A i, j \in DOMAIN s : i # j => s[i] # s[j]}

RemoveAt(s, i) == SubSeq(s, 1, i - 1) \o SubSeq(s, i + 1, Len(s))

Unsorted(keys) == keys

\* sort.Strings
RECURSIVE SortStrings(_)
SortStrings(keys) ==
  IF keys = <<>> THEN <<>>
  ELSE LET i == CHOOSE i \in DOMAIN keys :
                  \A j \in DOMAIN keys : ~StrLess(keys[j], keys[i])
       IN <<keys[i]>> \o SortStrings(RemoveAt(keys, i))

\* for i := 0; used[name] || keyword(name); i++ { name = base + Itoa(i) }
RECURSIVE tryNames(_, _, _, _)
tryNames(base, name, i, used) ==
  IF name \in used \/ IsKeyword(name)
    THEN tryNames(base, base \o Itoa(i), i + 1, used)
    ELSE name

Put(f, k, v) == [x \in DOMAIN f \cup {k} |-> IF x = k THEN v ELSE f[x]]

EmptyMap == [x \in {} |-> <<>>]

\* One pass of the loop body of generateUniquePackageNamesFor.
assignName(acc, importPath) ==
  LET base == sanitize(Base(importPath))
      tried == tryNames(base, base, 0, acc.used)
      packageName == IF importPath = mockFrameworkImportPath
                       THEN pegomockName ELSE tried
  IN [packageMap |-> Put(acc.packageMap, importPath, packageName),
      used |-> acc.used \cup {packageName},
      nonVendorPackageMap |->
        Put(acc.nonVendorPackageMap, vendorCleaned(importPath), packageName)]

RECURSIVE assignNames(_, _, _)
assignNames(sorted, i, acc) ==
  IF i > Len(sorted) THEN acc
  ELSE assignNames(sorted, i + 1, assignName(acc, sorted[i]))

\* keys: lo.Keys(importPaths), in the order the map happened to yield them.
generateUniquePackageNamesFor(keys) ==
  assignNames(SortStrings(keys), 1,
              [packageMap |-> EmptyMap, used |-> {},
               nonVendorPackageMap |-> EmptyMap])

\* ------------------------------------------------------------- the package

UserPaths ==
  { <<"a","/","p","e","g","o","m","o","c","k">>,          \* a/pegomock
    <<"a","/","t","i","m","e">>,                          \* a/time
    <<"t","i","m","e">>,                                  \* time
    <<"r","e","f","l","e","c","t">>,                      \* reflect
    <<"a","/","v","e","n","d","o","r","/","x","/","y">>,  \* a/vendor/x/y
    <<"x","/","y">>,                                      \* x/y
    <<"z","/","y">>,                                      \* z/y
    <<"a","/","g","o">>,                                  \* a/go
    <<"a","/","1","-","b">> }                             \* a/1-b

NoString == <<>>

\* Interface number i with its first n methods; names are the numbers.
Interface(i, n) == [Name |-> i, Methods |-> [j \in 1..n |-> j]]

InterfaceLists ==
  UNION { {[i \in 1..n |-> Interface(i, c[i])] : c \in [1..n -> 0..MaxMethods]}
          : n \in 0..MaxInterfaces }

ImportSets == {S \in SUBSET UserPaths : Cardinality(S) <= MaxImports}

\* --------------------------------------------------------------- emission

Line(kind, name, path) ==
  [kind |-> kind, name |-> name, path |-> path, mock |-> NoString,
   iface |-> 0, method |-> 0]

Unit(kind, mock, iface, m) ==
  [kind |-> kind, name |-> NoString, path |-> NoString, mock |-> mock,
   iface |-> iface, method |-> m]

\* Lines 59-72 of generateCode for one order of ranging over the map.
importBlock(nonVendor, order, self, dotImports) ==
  LET wanted(p) == p # self /\ p # <<"t","i","m","e">>
                   /\ p # <<"r","e","f","l","e","c","t">>
      ranged == SelectSeq(order, wanted)
  IN <<Line("import", NoString, <<"r","e","f","l","e","c","t">>),
       Line("import", NoString, <<"t","i","m","e">>)>>
     \o [k \in DOMAIN ranged |-> Line("import", nonVendor[ranged[k]], ranged[k])]
     \o [k \in DOMAIN dotImports |-> Line("import", <<".">>, dotImports[k])]

\* sName of generateCode (lines 75-78).
mockTypeName(iface) ==
  IF structName = NoString THEN <<"Mock", iface.Name>> ELSE structName

\* Control flow of generateCode's loop over the interfaces and of
\* generateMockFor: the unit emitted after the one at p.
nextInterface(p) ==
  IF p.i < Len(pkg.Interfaces)
    THEN [at |-> "mockType", i |-> p.i + 1, j |-> 0]
    ELSE [at |-> "format", i |-> 0, j |-> 0]

onePassNextPc(p) ==
  LET n == Len(pkg.Interfaces[p.i].Methods)
  IN CASE p.at = "mockType" ->
            IF n > 0 THEN [p EXCEPT !.at = "mockMethod", !.j = 1]
                     ELSE [p EXCEPT !.at = "verifyMethods"]
       [] p.at = "mockMethod" -> [p EXCEPT !.at = "verifierMethod"]
       [] p.at = "verifyMethods" -> [p EXCEPT !.at = "verifierType"]
       [] p.at = "verifierType" -> nextInterface(p)
       [] p.at = "verifierMethod" -> [p EXCEPT !.at = "ongoingType"]
       [] p.at = "ongoingType" -> [p EXCEPT !.at = "getCaptured"]
       [] p.at = "getCaptured" -> [p EXCEPT !.at = "getAllCaptured"]
       [] p.at = "getAllCaptured" ->
            IF p.j < n THEN [p EXCEPT !.at = "mockMethod", !.j = p.j + 1]
                       ELSE [p EXCEPT !.at = "verifyMethods"]

nextPc(p) ==
  LET n == Len(pkg.Interfaces[p.i].Methods)
  IN CASE p.at = "mockType" ->
            IF n > 0 THEN [p EXCEPT !.at = "mockMethod", !.j = 1]
                     ELSE [p EXCEPT !.at = "verifyMethods"]
       [] p.at = "mockMethod" ->
            IF p.j < n THEN [p EXCEPT !.j = p.j + 1]
                       ELSE [p EXCEPT !.at = "verifyMethods"]
       [] p.at = "verifyMethods" -> [p EXCEPT !.at = "verifierType"]
       [] p.at = "verifierType" ->
            IF n > 0 THEN [p EXCEPT !.at = "verifierMethod", !.j = 1]
                     ELSE nextInterface(p)
       [] p.at = "verifierMethod" -> [p EXCEPT !.at = "ongoingType"]
       [] p.at = "ongoingType" -> [p EXCEPT !.at = "getCaptured"]
       [] p.at = "getCaptured" -> [p EXCEPT !.at = "getAllCaptured"]
       [] p.at = "getAllCaptured" ->
            IF p.j < n THEN [p EXCEPT !.at = "verifierMethod", !.j = p.j + 1]
                       ELSE nextInterface(p)

\* ast.SortImports as run by format.Source: the specs of the import block
\* sorted by path, then name, duplicates dropped.
SpecLess(a, b) ==
  StrLess(a.path, b.path) \/ (a.path = b.path /\ StrLess(a.name, b.name))

RECURSIVE sortSpecs(_)
sortSpecs(specs) ==
  IF specs = <<>> THEN <<>>
  ELSE LET i == CHOOSE i \in DOMAIN specs :
                  \A j \in DOMAIN specs : ~SpecLess(specs[j], specs[i])
           rest == sortSpecs(RemoveAt(specs, i))
       IN IF rest # <<>> /\ rest[1] = specs[i] THEN rest
          ELSE <<specs[i]>> \o rest

IsImport(l) == l.kind = "import"

IsNotImport(l) == l.kind # "import"

\* format.Source on the buffer (the header lines stay first: they are emitted
\* before the import block, everything else after it).
formatSource(b) ==
  <<b[1]>> \o sortSpecs(SelectSeq(b, IsImport))
           \o SelectSeq(Tail(b), IsNotImport)

\* ------------------------------------------------- the emitted code: idle

NoMethod == [In |-> <<>>, Variadic |-> <<>>, Out |-> <<>>]

MockIdle ==
  /\ method = NoMethod
  /\ op = "none"
  /\ args = <<>>
  /\ params = <<>>
  /\ result = <<>>
  /\ rets = <<>>
  /\ asserted = {}
  /\ indexed = {}
  /\ handle = <<>>
  /\ allCaptured = <<>>
  /\ lastCaptured = <<>>
  /\ panicked = FALSE

\* ------------------------------------------------- GenerateOutput, by steps

Start == [at |-> "start", i |-> 0, j |-> 0]

GenInit(importSets, dotImportLists, interfaceLists, structNames, selfPackages) ==
  /\ pkg \in [Imports : importSets, DotImports : dotImportLists,
              Interfaces : interfaceLists]
  /\ structName \in structNames
  /\ selfPackage \in selfPackages
  /\ pc = Start
  /\ packageMap = EmptyMap
  /\ nonVendorPackageMap = EmptyMap
  /\ buf = <<>>
  /\ outputs = <<>>

\* generateCode up to the end of the import block (lines 49-72).
GenerateCode ==
  /\ pc.at = "start"
  /\ \E keys \in Orders(pkg.Imports \cup {mockFrameworkImportPath}) :
       \E r \in {generateUniquePackageNamesFor(keys)} :
          /\ packageMap' = r.packageMap
          /\ nonVendorPackageMap' = r.nonVendorPackageMap
          /\ \E order \in Orders(DOMAIN r.nonVendorPackageMap) :
               buf' = <<Line("header", NoString, NoString)>>
                      \o importBlock(r.nonVendorPackageMap, order, selfPackage,
                                     pkg.DotImports)
  /\ pc' = nextInterface(pc)
  /\ UNCHANGED <<pkg, structName, selfPackage, outputs>>
  /\ UNCHANGED mockVars

PerMethod(kind) ==
  kind \in {"mockMethod", "verifierMethod", "ongoingType", "getCaptured",
            "getAllCaptured"}

\* One g.generate... call of generateMockFor for the interface and method at pc.
Emit(kind) ==
  /\ LET iface == pkg.Interfaces[pc.i]
     IN buf' = Append(buf, Unit(kind, mockTypeName(iface), iface.Name,
                                IF PerMethod(kind) THEN iface.Methods[pc.j] ELSE 0))
  /\ pc' = nextPc(pc)
  /\ UNCHANGED <<pkg, structName, selfPackage, packageMap, nonVendorPackageMap,
                 outputs>>
  /\ UNCHANGED mockVars

GenerateMockType ==
  /\ pc.at = "mockType"
  /\ Emit("mockType")

GenerateMockMethod ==
  /\ pc.at = "mockMethod"
  /\ Emit("mockMethod")

GenerateMockVerifyMethods ==
  /\ pc.at = "verifyMethods"
  /\ Emit("verifyMethods")

GenerateVerifierType ==
  /\ pc.at = "verifierType"
  /\ Emit("verifierType")

GenerateVerifierMethod ==
  /\ pc.at = "verifierMethod"
  /\ Emit("verifierMethod")

GenerateOngoingVerificationType ==
  /\ pc.at = "ongoingType"
  /\ Emit("ongoingType")

GenerateGetCapturedArguments ==
  /\ pc.at = "getCaptured"
  /\ Emit("getCaptured")

GenerateGetAllCapturedArguments ==
  /\ pc.at = "getAllCaptured"
  /\ Emit("getAllCaptured")

\* g.formattedOutput(): the return value of GenerateOutput.
FormattedOutput ==
  /\ pc.at = "format"
  /\ outputs' = Append(outputs, formatSource(buf))
  /\ pc' = [pc EXCEPT !.at = "done"]
  /\ UNCHANGED <<pkg, structName, selfPackage, packageMap, nonVendorPackageMap,
                 buf>>
  /\ UNCHANGED mockVars

\* Another, independent GenerateOutput call on the same input: a fresh
\* generator{}.
GenerateOutput ==
  /\ pc.at = "done"
  /\ Len(outputs) < Runs
  /\ pc' = Start
  /\ packageMap' = EmptyMap
  /\ nonVendorPackageMap' = EmptyMap
  /\ buf' = <<>>
  /\ UNCHANGED <<pkg, structName, selfPackage, outputs>>
  /\ UNCHANGED mockVars

Next ==
  \/ GenerateCode
  \/ GenerateMockType
  \/ GenerateMockMethod
  \/ GenerateMockVerifyMethods
  \/ GenerateVerifierType
  \/ GenerateVerifierMethod
  \/ GenerateOngoingVerificationType
  \/ GenerateGetCapturedArguments
  \/ GenerateGetAllCapturedArguments
  \/ FormattedOutput
  \/ GenerateOutput

\* The alias resolver and the import block: every bounded set of imports.
Init ==
  /\ GenInit(ImportSets, {<<<<"z","/","y">>>>}, {<<Interface(1, 1)>>},
             {NoString}, {NoString, <<"x","/","y">>})
  /\ MockIdle

Spec == Init /\ [][Next]_vars

\* The emission driver: every bounded list of interfaces.
EmitInit ==
  /\ GenInit({{}, {<<"x","/","y">>}}, {<<>>}, InterfaceLists,
             {NoString, <<"S">>}, {NoString})
  /\ MockIdle

EmitSpec == EmitInit /\ [][Next]_vars

\* ------------------------------------------------ claims on the generator

TimePath == <<"t","i","m","e">>

ReflectPath == <<"r","e","f","l","e","c","t">>

Resolved == pc.at # "start"

\* C1: the aliases of the full-path map are pairwise distinct across distinct
\* paths, and the framework's path is mapped to the fixed alias pegomock.
C1_AliasesPairwiseDistinct ==
  Resolved =>
    /\ \A p, q \in DOMAIN packageMap :
         p # q => packageMap[p] # packageMap[q]
    /\ packageMap[mockFrameworkImportPath] = pegomockName

\* C2: the two views agree: the import view's alias for vendorCleaned(p) is
\* the full-path view's alias for p, for every import path p.
C2_ViewsAgree ==
  Resolved =>
    \A p \in DOMAIN packageMap :
      nonVendorPackageMap[vendorCleaned(p)] = packageMap[p]

\* The local name an import line binds (none for a dot import).
LocalName(l) == IF l.name = NoString THEN Base(l.path) ELSE l.name

Binds(l) == l.kind = "import" /\ l.name # <<".">>

\* C9: in the emitted import block every local package name is bound to at
\* most one import path, and time / reflect, when referenced, are aliased by
\* the resolver under the name they are imported as.
C9_ImportNamesUnique ==
  Resolved =>
    /\ \A a, b \in DOMAIN buf :
         (Binds(buf[a]) /\ Binds(buf[b])
            /\ LocalName(buf[a]) = LocalName(buf[b]))
         => buf[a].path = buf[b].path
    /\ \A std \in {TimePath, ReflectPath} :
         std \in DOMAIN packageMap => packageMap[std] = std

\* C3: generation is deterministic: all GenerateOutput calls on the same
\* input return the same output, whatever order the maps were ranged in.
C3_Deterministic ==
  \A a, b \in DOMAIN outputs : outputs[a] = outputs[b]

\* A second call that ranged over the import map in another order than the
\* formatted one has finished with the first call's output.
C3_Witness ==
  /\ Len(outputs) = 2
  /\ pc.at = "done"
  /\ SelectSeq(buf, IsImport) # SelectSeq(outputs[1], IsImport)
  /\ Cardinality(pkg.Imports) = 2

\* The place of a unit in the order generateMockFor is to emit them in.
KindRank(kind) ==
  CASE kind = "mockType" -> 1
    [] kind = "mockMethod" -> 2
    [] kind = "verifyMethods" -> 3
    [] kind = "verifierType" -> 4
    [] kind = "verifierMethod" -> 5
    [] kind = "ongoingType" -> 6
    [] kind = "getCaptured" -> 7
    [] kind = "getAllCaptured" -> 8

IsVerification(u) == u.kind # "import" /\ u.kind # "header" /\ KindRank(u.kind) >= 3

Before(u, v) ==
  \/ u.iface < v.iface
  \/ /\ u.iface = v.iface
     /\ LET ku == KindRank(u.kind)
            kv == KindRank(v.kind)
        IN \/ ku <= 4 /\ kv <= 4 /\ ku < kv
           \/ ku <= 4 /\ kv >= 5
           \/ ku = 2 /\ kv = 2 /\ u.method < v.method
           \/ ku >= 5 /\ kv >= 5 /\ u.method < v.method
           \/ ku >= 5 /\ kv >= 5 /\ u.method = v.method /\ ku < kv

UnitsOf(i) ==
  LET n == Len(pkg.Interfaces[i].Methods)
  IN {<<i, k, 0>> : k \in {"mockType", "verifyMethods", "verifierType"}}
     \cup {<<i, k, j>> : k \in {"mockMethod", "verifierMethod", "ongoingType",
                                "getCaptured", "getAllCaptured"},
                         j \in 1..n}

\* C7: after the header and the import block the interfaces are emitted in
\* package order, each as: type and constructor, every intercepting method
\* in declaration order, the verification factories, the verifier type, then
\* per method the verifier method, the ongoing-verification type and the two
\* capture accessors; no intercepting method follows a verification unit of
\* its interface; a finished run has emitted every unit exactly once.
C7_EmissionOrder ==
  Resolved =>
    /\ buf[1].kind = "header"
    /\ \A a, b \in DOMAIN buf :
         a < b =>
           /\ buf[b].kind # "header"
           /\ IsImport(buf[b]) => (a = 1 \/ IsImport(buf[a]))
           /\ (IsNotImport(buf[a]) /\ a > 1) => Before(buf[a], buf[b])
           /\ (buf[b].kind = "mockMethod" /\ buf[a].iface = buf[b].iface)
                => ~IsVerification(buf[a])
    /\ pc.at \in {"format", "done"} =>
         {<<buf[a].iface, buf[a].kind, buf[a].method>> :
            a \in {x \in DOMAIN buf : x > 1 /\ IsNotImport(buf[x])}}
         = UNION {UnitsOf(i) : i \in DOMAIN pkg.Interfaces}

\* A finished run over two interfaces, one of them with two methods.
C7_Witness ==
  /\ pc.at = "done"
  /\ Len(pkg.Interfaces) = 2
  /\ \E i \in DOMAIN pkg.Interfaces : Len(pkg.Interfaces[i].Methods) = 2
  /\ Len(outputs[1]) > 20

\* ======================================================= the emitted code
\*
\* Go values of a declared type are numbers, 0 being the type's zero value
\* (0, a nil error, a nil channel).  A pegomock.Param (an interface{}) is
\* Nil or <<[t |-> dynamic type, v |-> value]>>.

MaxFixed == 2      \* fixed inputs of a method
MaxVariadic == 2   \* variadic values passed on one call
MaxOut == 2        \* outputs of a method
MaxCalls == 2      \* matched invocations of one verification

Nil == <<>>

IntType == "int"

ErrorType == "error"

DirChanType == "<-chan int"

UndirectedChanType == "chan int"

\* Storing a value of static type t in an interface{}: only a nil value of
\* an interface type gives a nil interface.
Box(v, t) == IF t = ErrorType /\ v = 0 THEN Nil ELSE <<[t |-> t, v |-> v]>>

\* p.(t): the value, or a panic when p is nil or holds another type.
CanAssert(p, t) == p # Nil /\ p[1].t = t

Param(name, type) == [Name |-> name, Type |-> type]

\* A method with k fixed inputs (all named or all unnamed, as Go requires),
\* optionally a variadic one, and n outputs.
Method(k, named, inType, variadic, n, outType) ==
  [In |-> [i \in 1..k |-> Param(IF named THEN <<"arg", i>> ELSE <<>>, inType)],
   Variadic |-> IF variadic
                  THEN <<Param(IF named THEN <<"rest", 0>> ELSE <<>>, inType)>>
                  ELSE <<>>,
   Out |-> [i \in 1..n |-> Param(<<>>, outType)]]

InTypes == {IntType, ErrorType}

OutTypes == {IntType, ErrorType, DirChanType}

Methods ==
  {Method(k, named, inType, variadic, n, outType) :
     k \in 0..MaxFixed, named \in BOOLEAN, inType \in InTypes,
     variadic \in BOOLEAN, n \in 0..MaxOut, outType \in OutTypes}

\* argDataFor: the argument names and type strings, and the return types.
argDataFor(m) ==
  LET nameOf(arg, i) == IF arg.Name = <<>> THEN <<"_param", i>> ELSE arg.Name
      inNames == [i \in DOMAIN m.In |-> nameOf(m.In[i], i - 1)]
      inTypes == [i \in DOMAIN m.In |-> <<m.In[i].Type>>]
  IN IF m.Variadic # <<>>
       THEN [argNames |-> Append(inNames, nameOf(m.Variadic[1], Len(m.In))),
             argTypes |-> Append(inTypes, <<"[]", m.Variadic[1].Type>>),
             returnTypes |-> [i \in DOMAIN m.Out |-> m.Out[i].Type]]
       ELSE [argNames |-> inNames,
             argTypes |-> inTypes,
             returnTypes |-> [i \in DOMAIN m.Out |-> m.Out[i].Type]]

\* The statements GenerateParamsDeclaration prints: the names listed in the
\* []pegomock.Param literal, and the name ranged over and appended (if any).
paramsDeclarationWithoutLoop(argNames, isVariadic) ==
  IF isVariadic
    THEN [listed |-> SubSeq(argNames, 1, Len(argNames) - 1), ranged |-> <<>>]
    ELSE [listed |-> argNames, ranged |-> <<>>]

GenerateParamsDeclaration(argNames, isVariadic) ==
  IF isVariadic
    THEN [listed |-> SubSeq(argNames, 1, Len(argNames) - 1),
          ranged |-> <<argNames[Len(argNames)]>>]
    ELSE [listed |-> argNames, ranged |-> <<>>]

\* The arguments of a call: a value per fixed input, and the variadic values.
\* env binds the emitted function's parameter names to them, boxed as the
\* emitted literal and append box them.
Env(m, a) ==
  LET names == argDataFor(m).argNames
      k == Len(m.In)
  IN [n \in {names[i] : i \in DOMAIN names} |->
        LET i == CHOOSE i \in DOMAIN names : names[i] = n
        IN IF i <= k
             THEN Box(a.fixed[i], m.In[i].Type)
             ELSE [x \in DOMAIN a.variadic |->
                     Box(a.variadic[x], m.Variadic[1].Type)]]

\* Running the printed params declaration: _params.
runParamsDeclaration(decl, env) ==
  [i \in DOMAIN decl.listed |-> env[decl.listed[i]]]
  \o (IF decl.ranged = <<>> THEN <<>> ELSE env[decl.ranged[1]])

paramsOf(m, a) ==
  runParamsDeclaration(
    GenerateParamsDeclaration(argDataFor(m).argNames, m.Variadic # <<>>),
    Env(m, a))

\* ---- the intercepting method (generateMockMethod)

Zeros(types) == [i \in DOMAIN types |-> 0]

\* The statement printed for output i (lines 232-244) run on a non-nil
\* _result[i]: for a directional channel first the undirected form, then
\* the directional one; otherwise the declared type.
assertResult(p, t) ==
  IF t = DirChanType
    THEN IF CanAssert(p, UndirectedChanType)
           THEN [ok |-> TRUE, v |-> p[1].v]
           ELSE [ok |-> CanAssert(p, DirChanType),
                 v |-> IF CanAssert(p, DirChanType) THEN p[1].v ELSE 0]
    ELSE [ok |-> CanAssert(p, t), v |-> IF CanAssert(p, t) THEN p[1].v ELSE 0]

RECURSIVE unpackFrom(_, _, _, _)
unpackFrom(types, res, i, acc) ==
  IF i > Len(types) THEN acc
  ELSE IF i > Len(res)      \* _result[i]: index out of range
    THEN [acc EXCEPT !.panicked = TRUE, !.indexed = @ \cup {i}]
  ELSE IF res[i] = Nil
    THEN unpackFrom(types, res, i + 1, [acc EXCEPT !.indexed = @ \cup {i}])
  ELSE LET a == assertResult(res[i], types[i])
           next == [acc EXCEPT !.indexed = @ \cup {i},
                               !.asserted = @ \cup {i},
                               !.rets[i] = a.v]
       IN IF a.ok THEN unpackFrom(types, res, i + 1, next)
          ELSE [next EXCEPT !.panicked = TRUE]

NotUnpacked(types) ==
  [rets |-> Zeros(types), asserted |-> {}, indexed |-> {}, panicked |-> FALSE]

unpackWithoutLenCheck(types, res) ==
  unpackFrom(types, res, 1, NotUnpacked(types))

\* Lines 224-249: var _ret<i>; if len(_result) != 0 { ... }; return.
unpackResult(types, res) ==
  IF Len(res) # 0
    THEN unpackFrom(types, res, 1, NotUnpacked(types))
    ELSE NotUnpacked(types)

\* ---- the runtime, as far as the emitted code reads it

\* What Invoke can return to a method with these return types: nothing (no
\* stubbing), or one slot per return type, nil or a value of that type (a
\* channel stored undirected or with its direction).
SlotValues(t, i) ==
  IF t = DirChanType
    THEN {Nil, <<[t |-> UndirectedChanType, v |-> 30 + i]>>,
          <<[t |-> DirChanType, v |-> 30 + i]>>}
    ELSE {Nil, <<[t |-> t, v |-> 30 + i]>>}

InvokeResults(types) ==
  {<<>>} \cup {r \in [DOMAIN types -> UNION {SlotValues(types[i], i) : i \in DOMAIN types}] :
                 \A i \in DOMAIN types : r[i] \in SlotValues(types[i], i)}

\* The arguments of call number u: every fixed input a value of its own, or
\* nil where the type is an interface; n variadic values of their own.
CallShapes(m) ==
  [nils : IF m.In # <<>> /\ m.In[1].Type = ErrorType
            THEN SUBSET (DOMAIN m.In) ELSE {{}},
   n : IF m.Variadic # <<>> THEN 0..MaxVariadic ELSE {0}]

CallArgs(m, shape, u) ==
  [fixed |-> [i \in DOMAIN m.In |->
                IF i \in shape.nils THEN 0 ELSE 100 * u + 10 + i],
   variadic |-> [x \in 1..shape.n |-> 100 * u + 20 + x]]


\* GetInvocationParams: the matrix [position][call] of the recorded values,
\* nil where a call passed no value at a position that another call filled;
\* no rows beyond the longest call, none at all without invocations.
GetInvocationParams(invocations) ==
  LET lens == {Len(invocations[u].params) : u \in DOMAIN invocations}
      rows == IF lens = {} THEN 0 ELSE CHOOSE n \in lens : \A l \in lens : l <= n
  IN [x \in 1..rows |->
        [u \in DOMAIN invocations |->
           IF x <= Len(invocations[u].params)
             THEN invocations[u].params[x] ELSE Nil]]

\* ---- the capture accessors

\* strings.Replace(argType, "[]", "", 1) on a type string given by its tokens.
variadicBasicType(argType) ==
  LET hits == {i \in DOMAIN argType : argType[i] = "[]"}
  IN IF hits = {} THEN argType
     ELSE RemoveAt(argType, CHOOSE i \in hits : \A j \in hits : i <= j)

\* Lines 370-375 for fixed position i (counted from 1).
capturedFixed(matrix, i, argType, numCalls) ==
  IF Len(matrix) > i - 1
    THEN [panicked |-> \E u \in DOMAIN matrix[i] :
                          ~CanAssert(matrix[i][u], argType[1]),
          value |-> [u \in 1..numCalls |->
                       IF u \in DOMAIN matrix[i]
                          /\ CanAssert(matrix[i][u], argType[1])
                         THEN matrix[i][u][1].v ELSE 0]]
    ELSE [panicked |-> FALSE, value |-> <<>>]

\* Lines 356-366 for the variadic position i (counted from 1).
capturedVariadic(matrix, i, argType, numCalls) ==
  LET basic == variadicBasicType(argType)[1]
      width == Len(matrix) - (i - 1)
      cells == {<<x, u>> \in (i..Len(matrix)) \X (1..numCalls) :
                  matrix[x][u] # Nil}
  IN IF numCalls > 0 /\ width < 0
       THEN [panicked |-> TRUE, value |-> <<>>]   \* make with a negative length
       ELSE [panicked |-> \E c \in cells : ~CanAssert(matrix[c[1]][c[2]], basic),
             value |-> [u \in 1..numCalls |->
                          [y \in 1..width |->
                             LET p == matrix[y + i - 1][u]
                             IN IF CanAssert(p, basic) THEN p[1].v ELSE 0]]]

\* The function generateOngoingVerificationGetAllCapturedArguments prints,
\* run on c.methodInvocations: the named results _param0, _param1, ...
getAllCapturedArguments(argTypes, isVariadic, methodInvocations) ==
  LET numArgs == Len(argTypes)
      numCalls == Len(methodInvocations)
      matrix == GetInvocationParams(methodInvocations)
      at(i) == IF isVariadic /\ i = numArgs
                 THEN capturedVariadic(matrix, i, argTypes[i], numCalls)
                 ELSE capturedFixed(matrix, i, argTypes[i], numCalls)
  IN IF numArgs > 0 /\ Len(matrix) > 0
       THEN [panicked |-> \E i \in 1..numArgs : at(i).panicked,
             value |-> [i \in 1..numArgs |-> at(i).value]]
       ELSE [panicked |-> FALSE, value |-> [i \in 1..numArgs |-> <<>>]]

\* The function generateOngoingVerificationGetCapturedArguments prints:
\* the last element of every result of GetAllCapturedArguments.
getCapturedArguments(argNames, all) ==
  IF Len(argNames) > 0
    THEN IF all.panicked \/ \E i \in DOMAIN all.value : Len(all.value[i]) = 0
           THEN [panicked |-> TRUE, value |-> <<>>]
           ELSE [panicked |-> FALSE,
                 value |-> [i \in DOMAIN argNames |->
                              all.value[i][Len(all.value[i])]]]
    ELSE [panicked |-> FALSE, value |-> <<>>]


\* ---- the emitted functions as steps.  The variables hold the inputs and
\* the outputs of the emitted function that ran last.  The emitted functions
\* keep no state of their own between calls (the mock struct holds only the
\* fail handler), so a behaviour is one call of the intercepting method, or
\* one verification followed by a capture accessor on its result.

GenIdle ==
  /\ pkg = [Imports |-> {}, DotImports |-> <<>>, Interfaces |-> <<>>]
  /\ structName = NoString
  /\ selfPackage = NoString
  /\ pc = [at |-> "done", i |-> 0, j |-> 0]
  /\ packageMap = EmptyMap
  /\ nonVendorPackageMap = EmptyMap
  /\ buf = <<>>
  /\ outputs = <<>>

Invocations(m, shapes) ==
  [u \in DOMAIN shapes |-> [params |-> paramsOf(m, CallArgs(m, shapes[u], u))]]

\* The matched invocations Verify can return when argument matchers are in
\* use: any recorded calls of the method.
Histories(m) ==
  UNION {{Invocations(m, shapes) : shapes \in [1..n -> CallShapes(m)]}
           : n \in 0..MaxCalls}

\* The intercepting method: params declaration, Invoke, result unpacking.
MockMethodCall ==
  /\ op = "none"
  /\ \E shape \in CallShapes(method) :
       \E res \in InvokeResults(argDataFor(method).returnTypes) :
         \E un \in {unpackResult(argDataFor(method).returnTypes, res)} :
           /\ args' = CallArgs(method, shape, 0)
           /\ params' = paramsOf(method, CallArgs(method, shape, 0))
           /\ result' = res
           /\ rets' = IF method.Out = <<>> THEN <<>> ELSE un.rets
           /\ asserted' = IF method.Out = <<>> THEN {} ELSE un.asserted
           /\ indexed' = IF method.Out = <<>> THEN {} ELSE un.indexed
           /\ panicked' = (method.Out # <<>> /\ un.panicked)
  /\ op' = "MockMethod"
  /\ handle' = <<>>
  /\ allCaptured' = <<>>
  /\ lastCaptured' = <<>>
  /\ UNCHANGED <<method, genVars>>

\* The verifier method (generateVerifierMethod) called with plain values:
\* Verify matches by equality, so every matched invocation has this call's
\* parameter vector.
VerifierMethodCall ==
  /\ op = "none"
  /\ \E shape \in CallShapes(method) :
       \E n \in 0..MaxCalls :
         /\ args' = CallArgs(method, shape, 0)
         /\ params' = paramsOf(method, CallArgs(method, shape, 0))
         /\ handle' = [u \in 1..n |->
                         [params |-> paramsOf(method, CallArgs(method, shape, 0))]]
  /\ op' = "VerifierMethod"
  /\ result' = <<>>
  /\ rets' = <<>>
  /\ asserted' = {}
  /\ indexed' = {}
  /\ allCaptured' = <<>>
  /\ lastCaptured' = <<>>
  /\ panicked' = FALSE
  /\ UNCHANGED <<method, genVars>>

\* The verifier method called with argument matchers: the values passed are
\* placeholders and Verify returns whichever recorded calls the matchers
\* accept.
VerifierMethodCallWithMatchers ==
  /\ op = "none"
  /\ \E shape \in CallShapes(method) :
       /\ args' = CallArgs(method, shape, 0)
       /\ params' = paramsOf(method, CallArgs(method, shape, 0))
  /\ handle' \in Histories(method)
  /\ op' = "VerifierMethod"
  /\ result' = <<>>
  /\ rets' = <<>>
  /\ asserted' = {}
  /\ indexed' = {}
  /\ allCaptured' = <<>>
  /\ lastCaptured' = <<>>
  /\ panicked' = FALSE
  /\ UNCHANGED <<method, genVars>>

\* GetAllCapturedArguments on the value the verifier method returned.
GetAllCapturedArguments ==
  /\ op = "VerifierMethod"
  /\ \E all \in {getAllCapturedArguments(argDataFor(method).argTypes,
                                        method.Variadic # <<>>, handle)} :
       /\ allCaptured' = all.value
       /\ panicked' = all.panicked
  /\ op' = "GetAllCapturedArguments"
  /\ lastCaptured' = <<>>
  /\ UNCHANGED <<method, args, params, result, rets, asserted, indexed, handle,
                 genVars>>

\* GetCapturedArguments on the value the verifier method returned.
GetCapturedArguments ==
  /\ op = "VerifierMethod"
  /\ \E all \in {getAllCapturedArguments(argDataFor(method).argTypes,
                                        method.Variadic # <<>>, handle)} :
       \E last \in {getCapturedArguments(argDataFor(method).argNames, all)} :
         /\ allCaptured' = all.value
         /\ lastCaptured' = last.value
         /\ panicked' = last.panicked
  /\ op' = "GetCapturedArguments"
  /\ UNCHANGED <<method, args, params, result, rets, asserted, indexed, handle,
                 genVars>>

MockInit(methods) ==
  /\ GenIdle
  /\ method \in methods
  /\ op = "none"
  /\ args = [fixed |-> <<>>, variadic |-> <<>>]
  /\ params = <<>>
  /\ result = <<>>
  /\ rets = <<>>
  /\ asserted = {}
  /\ indexed = {}
  /\ handle = <<>>
  /\ allCaptured = <<>>
  /\ lastCaptured = <<>>
  /\ panicked = FALSE

\* One call of the intercepting method or of the verifier method, for every
\* bounded method.
MockSpecInit == MockInit(Methods)

MockNext == MockMethodCall \/ VerifierMethodCall

MockSpec == MockSpecInit /\ [][MockNext]_vars

\* A verification and the capture accessors, for every bounded method
\* without outputs (the accessors do not depend on the outputs).
CaptureInit == MockInit({m \in Methods : m.Out = <<>>})

CaptureNext ==
  \/ VerifierMethodCall
  \/ VerifierMethodCallWithMatchers
  \/ GetAllCapturedArguments
  \/ GetCapturedArguments

CaptureSpec == CaptureInit /\ [][CaptureNext]_vars


\* ---------------------------------------------- claims on the emitted code

NameOrDefault(param, i) ==
  IF param.Name = <<>> THEN <<"_param", i>> ELSE param.Name

\* C6: for k fixed inputs and a variadic tail argDataFor yields k+1 names,
\* the variadic one last, and the intercepting method and the verifier method
\* build the parameter vector of the k fixed arguments in declaration order
\* followed by every variadic value in order (k+m values); without a variadic
\* tail the vector is exactly the k arguments.
C6_ArityPreserved ==
  op \in {"MockMethod", "VerifierMethod"} =>
    LET k == Len(method.In)
        m == Len(args.variadic)
        names == argDataFor(method).argNames
    IN /\ \A i \in 1..k : names[i] = NameOrDefault(method.In[i], i - 1)
       /\ IF method.Variadic # <<>>
            THEN /\ Len(names) = k + 1
                 /\ names[k + 1] = NameOrDefault(method.Variadic[1], k)
            ELSE /\ Len(names) = k
                 /\ m = 0
       /\ Len(params) = k + m
       /\ \A i \in 1..k : params[i] = Box(args.fixed[i], method.In[i].Type)
       /\ \A x \in 1..m :
            params[k + x] = Box(args.variadic[x], method.Variadic[1].Type)

\* The intercepting method of a method with two fixed inputs was called with
\* two variadic values.
C6_Witness ==
  /\ op = "MockMethod"
  /\ Len(method.In) = 2
  /\ method.Variadic # <<>>
  /\ Len(args.variadic) = 2
  /\ Len(params) = 4

\* C8: for a method with outputs, on a zero-length result vector the
\* intercepting method returns the zero value of every output without reading
\* or type-asserting any slot; on a non-empty one exactly the non-nil slots
\* are type-asserted and a nil slot leaves its output at the zero value.
C8_EmptyResultDistinction ==
  (op = "MockMethod" /\ method.Out # <<>>) =>
    /\ ~panicked
    /\ result = <<>> =>
         /\ rets = [i \in DOMAIN method.Out |-> 0]
         /\ indexed = {}
         /\ asserted = {}
    /\ result # <<>> =>
         /\ asserted = {i \in DOMAIN result : result[i] # Nil}
         /\ \A i \in DOMAIN result :
              rets[i] = IF result[i] = Nil THEN 0 ELSE result[i][1].v

\* The intercepting method of a method with two outputs got a zero-length
\* result vector.
C8_Witness ==
  /\ op = "MockMethod"
  /\ Len(method.Out) = 2
  /\ result = <<>>
  /\ rets = <<0, 0>>

NumArgs == Len(argDataFor(method).argTypes)

Captured == op \in {"GetAllCapturedArguments", "GetCapturedArguments"}

NoNilPassed ==
  \A u \in DOMAIN handle :
    \A x \in DOMAIN handle[u].params : handle[u].params[x] # Nil

\* C4: for a method with parameters and N >= 1 matched calls (none of which
\* passed nil) GetAllCapturedArguments returns for every position a sequence
\* of length N in call order, and GetCapturedArguments returns the last
\* element of each - also for calls that passed no variadic value.
C4_CaptureRoundTrip ==
  (Captured /\ Len(handle) >= 1 /\ NumArgs >= 1 /\ NoNilPassed) =>
    /\ ~panicked
    /\ \A i \in 1..NumArgs : Len(allCaptured[i]) = Len(handle)
    /\ \A i \in DOMAIN method.In :
         \A u \in DOMAIN handle :
           allCaptured[i][u] = handle[u].params[i][1].v
    /\ op = "GetCapturedArguments" =>
         \A i \in 1..NumArgs : lastCaptured[i] = allCaptured[i][Len(handle)]

\* C5: for a variadic method the inner sequence GetAllCapturedArguments
\* returns for call u holds exactly the variadic values passed on call u.
C5_VariadicValuesExact ==
  (/\ op = "GetAllCapturedArguments"
   /\ method.Variadic # <<>>
   /\ Len(handle) >= 1
   /\ ~panicked
   /\ Len(allCaptured[NumArgs]) = Len(handle)) =>
    \A u \in DOMAIN handle :
      allCaptured[NumArgs][u]
        = [x \in 1..(Len(handle[u].params) - Len(method.In)) |->
             handle[u].params[Len(method.In) + x][1].v]

\* C10: GetAllCapturedArguments completes on a nil recorded at a fixed
\* position and yields the zero value at that call's index.
C10_NilArgumentTolerated ==
  (op = "GetAllCapturedArguments" /\ Len(handle) >= 1 /\ method.In # <<>>) =>
    /\ ~panicked
    /\ \A i \in DOMAIN method.In :
         \A u \in DOMAIN handle :
           handle[u].params[i] = Nil => allCaptured[i][u] = 0

====
